---- MODULE Spec2Model ----
(***************************************************************************)
(* Model of pyactr's temporal module (src/pyactr/temporal.py): the         *)
(* TemporalBuffer (create / clear / retrieve / default_harvest) and the    *)
(* tick generator that a cooperative scheduler resumes once per event.     *)
(*                                                                         *)
(* Times and lags are integers counted in half steps of the simulation's   *)
(* time resolution (Resolution fine units = one step of roundtime).        *)
(* A logistic draw with scale s is s * z for a standardised draw z taken   *)
(* from ZDraws; numpy rejects a negative scale with ValueError.            *)
(***************************************************************************)
EXTENDS Integers, Sequences, FiniteSets, TLC

VARIABLES
    start,      \* self.start   (time_start)
    mult,       \* self.mult    (time_mult)
    noise,      \* self.noise   (time_noise)
    dm,         \* self.dm: the memory store default_harvest names
    mem,        \* contents of every memory store: the add(chunk, time) calls it received
    data,       \* self._data: the set holding the buffer's chunk
    run,        \* the tick generators: frame (time, tickcount, lag), position, and
                \* what each has emitted (events) and computed (lags) so far
    last        \* the last call made on the buffer or generator: its outcome and, for
                \* create, the resolved command and the slot it found

vars == <<start, mult, noise, dm, mem, data, run, last>>

----------------------------------------------------------------------------
(* Bounds of the model *)

\* events one generator may emit
MaxTicks == 3
\* add calls the memory store may receive
MaxHarvest == 1

(* Inputs *)

StartValues == {0, 2}
MultValues == {1, 2}
NoiseValues == {0, 1}
ZDraws == {-1, 1}
TimeValues == {0, 1}
ClearTimes == {0, 5}
Stores == {"dm"}
None == "None"
AttrNames == {"time", "ticks"}
VarNames == {"=x"}
RawValues == {None, "0", "=x"}
Bindings == {[v \in {} |-> "0"], [v \in VarNames |-> "0"], [v \in VarNames |-> "1"]}
Commands == [AttrNames -> RawValues]
\* generators alive at a time: a finished one is replaced by the next tick call
Runs == {1}

----------------------------------------------------------------------------
(* Collaborators of the module: utilities, chunks, buffers.Buffer, memory *)

\* utilities.TEMPORAL (TEMPORAL is a reserved word of TLA+)
TEMPORAL_CHUNK == "_temporal"

\* fine units per step of the time resolution roundtime rounds to
Resolution == 2

\* utilities.roundtime: round to the time resolution, ties to the even step
roundtime(x) ==
    LET q == x \div Resolution
        r == x % Resolution
    IN  IF 2 * r < Resolution THEN q * Resolution
        ELSE IF 2 * r > Resolution THEN (q + 1) * Resolution
        ELSE IF q % 2 = 0 THEN q * Resolution ELSE (q + 1) * Resolution

Digits == <<"0", "1", "2", "3", "4", "5", "6", "7", "8", "9">>

\* str(n) for n >= 0
RECURSIVE str(_)
str(n) == IF n < 10 THEN Digits[n + 1] ELSE str(n \div 10) \o Digits[(n % 10) + 1]

\* utilities.Event(time, proc, action)
Event(t, proc, action) == [time |-> t, proc |-> proc, action |-> action]

\* chunks.Chunk(typename, **attrs)
Chunk(typename, attrs) == [typename |-> typename, attrs |-> attrs]

\* otherchunk.removeunused(): the attributes that carry a value
removeunused(otherchunk) == {a \in DOMAIN otherchunk : otherchunk[a] # None}

Unbound == [values |-> "ACTRError"]

\* utilities.check_bound_vars: a variable resolves to its binding, a value to itself
check_bound_vars(actrvariables, elem) ==
    IF elem \in VarNames
    THEN IF elem \in DOMAIN actrvariables
         THEN [values |-> actrvariables[elem]]
         ELSE Unbound
    ELSE [values |-> elem]

\* set.pop() on self._data
pop(d) == CHOOSE x \in d : TRUE

\* memory.add(chunk, time)
dm_add(m, store, chunk, t) == [m EXCEPT ![store] = Append(@, [chunk |-> chunk, time |-> t])]

Harvested(m) == Len(m["dm"])

----------------------------------------------------------------------------
(* TemporalBuffer *)

\* clear that tags the harvested chunk with the default time, not its argument
clear_untimed(d, m, t) ==
    IF d # {}
    THEN [data |-> d \ {pop(d)}, mem |-> dm_add(m, dm, pop(d), 0)]
    ELSE [data |-> d, mem |-> m]

\* clear(time): the buffer's content and the memory after the call
clear(d, m, t) ==
    IF d # {}
    THEN [data |-> d \ {pop(d)}, mem |-> dm_add(m, dm, pop(d), t)]
    ELSE [data |-> d, mem |-> m]

\* Buffer.add: the insertion primitive harvests an occupied slot, then accepts elem
BufferAdd(d, m, elem) ==
    LET c == clear(d, m, 0)
    IN  [data |-> c.data \cup {elem}, mem |-> c.mem]

\* add that overwrites the slot without harvesting its content
add_overwrite(d, m, elem) == [data |-> {elem}, mem |-> m]

\* add that inserts without removing the content
add_keep(d, m, elem) == [data |-> d \cup {elem}, mem |-> m]

\* add(elem): super().add(elem)
add(d, m, elem) == BufferAdd(d, m, elem)

\* Buffer.modify(otherchunk): pops the chunk and puts a new chunk with the
\* attributes of otherchunk written over it; a lookup failure on an empty slot
modify(d, otherchunk) ==
    LET elem == pop(d)
        upd == [a \in DOMAIN elem.attrs \cup DOMAIN otherchunk.attrs |->
                    IF a \in DOMAIN otherchunk.attrs THEN otherchunk.attrs[a]
                    ELSE elem.attrs[a]]
    IN  (d \ {elem}) \cup {Chunk(otherchunk.typename, upd)}

\* create, lines 74-75: the resolved attribute-value pairs
mod_attr_val(otherchunk, actrvariables) ==
    [a \in removeunused(otherchunk) |-> check_bound_vars(actrvariables, otherchunk[a])]

\* create, lines 73-77: resolution fails on an unbound variable
Resolves(otherchunk, actrvariables) ==
    \A a \in removeunused(otherchunk) :
        check_bound_vars(actrvariables, otherchunk[a]) # Unbound

\* validation that does not look at the value of time
Validate_NoZeroCheck(m) ==
    IF Cardinality(DOMAIN m) > 1 \/ "time" \notin DOMAIN m
    THEN "ACTRError: must specify the attribute time and nothing else"
    ELSE "ok"

\* validation with the comparison of line 81 inverted
Validate_Inverted(m) ==
    IF Cardinality(DOMAIN m) > 1 \/ "time" \notin DOMAIN m
    THEN "ACTRError: must specify the attribute time and nothing else"
    ELSE IF m["time"].values = "0"
    THEN "ACTRError: must begin counting at 0"
    ELSE "ok"

\* create, lines 79-82: the validation of the resolved command
Validate(m) ==
    IF Cardinality(DOMAIN m) > 1 \/ "time" \notin DOMAIN m
    THEN "ACTRError: must specify the attribute time and nothing else"
    ELSE IF m["time"].values # "0"
    THEN "ACTRError: must begin counting at 0"
    ELSE "ok"

\* create, line 84: the new chunk
new_chunk(m) == Chunk(TEMPORAL_CHUNK, [a \in DOMAIN m |-> m[a].values])

\* tick, lines 94-97: the scale handed to logistic_noise for the tick at tickcount
noise_scale(tickcount, lag) ==
    IF tickcount = 0 THEN noise * 5 * start ELSE noise * mult * lag

\* logistic_noise(s), lines 102-109: the draw z scaled by s (s = 0 gives 0)
logistic_noise(s, z) == s * z

\* recurrence that grows the start interval instead of the previous lag
next_lag_restart(tickcount, lag, z) ==
    IF tickcount = 0
    THEN start + logistic_noise(noise_scale(tickcount, lag), z)
    ELSE mult * start + logistic_noise(noise_scale(tickcount, lag), z)

\* tick, lines 94-97: the lag of the tick at tickcount, lag being the previous one
next_lag(tickcount, lag, z) ==
    IF tickcount = 0
    THEN start + logistic_noise(noise_scale(tickcount, lag), z)
    ELSE mult * lag + logistic_noise(noise_scale(tickcount, lag), z)

\* tick, line 98: the time of the event
event_time(time, lag) == roundtime(time + lag)

\* tick, line 98: the event yielded at tickcount
tick_event(time, lag, tickcount) ==
    Event(event_time(time, lag), "TEMPORAL", "TEMPORAL TICK: " \o str(tickcount))

\* advance that writes the index of the tick to come, not of the tick just resumed
tick_chunk_next(tickcount) ==
    Chunk(TEMPORAL_CHUNK, [a \in {"time"} |-> str(tickcount + 1)])

\* tick, line 99: the chunk handed to modify
tick_chunk(tickcount) ==
    Chunk(TEMPORAL_CHUNK, [a \in {"time"} |-> str(tickcount)])

\* loop without the occupancy test of line 93
loop_unchecked(g, d, tickcount, z) ==
    IF noise_scale(tickcount, g.lag) < 0
    THEN [g EXCEPT !.pc = "ValueError", !.tickcount = tickcount]
    ELSE LET l == next_lag(tickcount, g.lag, z)
         IN  [g EXCEPT !.pc = "yielded", !.tickcount = tickcount, !.lag = l,
                       !.events = Append(@, tick_event(g.time, l, tickcount)),
                       !.lags = Append(@, l)]

\* tick, lines 93-98: the generator's frame g at the top of the loop, with the buffer
\* holding d: it returns, raises (numpy refuses a negative scale) or yields
loop(g, d, tickcount, z) ==
    IF d = {}
    THEN [g EXCEPT !.pc = "done", !.tickcount = tickcount]
    ELSE IF noise_scale(tickcount, g.lag) < 0
    THEN [g EXCEPT !.pc = "ValueError", !.tickcount = tickcount]
    ELSE LET l == next_lag(tickcount, g.lag, z)
         IN  [g EXCEPT !.pc = "yielded", !.tickcount = tickcount, !.lag = l,
                       !.events = Append(@, tick_event(g.time, l, tickcount)),
                       !.lags = Append(@, l)]

Idle == [pc |-> "idle", time |-> 0, tickcount |-> 0, lag |-> 0, events |-> <<>>, lags |-> <<>>]

\* __init__, lines 20-24: the three parameters are stored as given, unchecked; the
\* buffer starts empty, with a memory store as its default_harvest
Init ==
    /\ start \in StartValues
    /\ mult \in MultValues
    /\ noise \in NoiseValues
    /\ dm \in Stores
    /\ mem = [s \in Stores |-> <<>>]
    /\ data = {}
    /\ run = [r \in Runs |-> Idle]
    /\ last = [op |-> "init", result |-> "ok", arg |-> None]

\* default_harvest setter, lines 36-41: a memory store is accepted, anything that
\* is not one is refused
SetDefaultHarvest(value) ==
    /\ IF value \in Stores
       THEN /\ dm' = value
            /\ last' = [op |-> "default_harvest", result |-> "ok", arg |-> None]
       ELSE /\ dm' = dm
            /\ last' = [op |-> "default_harvest", result |-> "ACTRError", arg |-> None]
    /\ UNCHANGED <<start, mult, noise, mem, data, run>>

\* create(otherchunk, actrvariables), lines 69-86
Create(otherchunk, actrvariables) ==
    IF ~Resolves(otherchunk, actrvariables)
    THEN /\ last' = [op |-> "create", result |-> "ACTRError: unbound", arg |-> None]
         /\ UNCHANGED <<start, mult, noise, dm, mem, data, run>>
    ELSE LET m == mod_attr_val(otherchunk, actrvariables)
         IN  IF Validate(m) # "ok"
             THEN /\ last' = [op |-> "create", result |-> Validate(m),
                              arg |-> [command |-> m, slot |-> data]]
                  /\ UNCHANGED <<start, mult, noise, dm, mem, data, run>>
             ELSE LET a == add(data, mem, new_chunk(m))
                  IN  /\ Harvested(a.mem) <= MaxHarvest
                      /\ data' = a.data
                      /\ mem' = a.mem
                      /\ last' = [op |-> "create", result |-> "ok",
                                  arg |-> [command |-> m, slot |-> data]]
                      /\ UNCHANGED <<start, mult, noise, dm, run>>

\* clear(time), lines 49-54
Clear(t) ==
    LET c == clear(data, mem, t)
    IN  /\ Harvested(c.mem) <= MaxHarvest
        /\ data' = c.data
        /\ mem' = c.mem
        /\ last' = [op |-> "clear", result |-> IF data # {} THEN "harvested" ELSE "noop",
                    arg |-> IF data # {} THEN t ELSE None]
        /\ UNCHANGED <<start, mult, noise, dm, run>>

\* retrieve that returns nothing instead of raising
Retrieve_Returns ==
    /\ last' = [op |-> "retrieve", result |-> "None", arg |-> None]
    /\ UNCHANGED <<start, mult, noise, dm, mem, data, run>>

\* retrieve(otherchunk), lines 62-67
Retrieve ==
    /\ last' = [op |-> "retrieve", result |-> "ACTRError", arg |-> None]
    /\ UNCHANGED <<start, mult, noise, dm, mem, data, run>>

\* tick(time) is called: a generator is made, none of its body runs yet.
\* A generator that has finished is replaced by the new one.
Tick(r, time) ==
    /\ run[r].pc \in {"idle", "done", "KeyError", "ValueError"}
    /\ run' = [run EXCEPT ![r] = [Idle EXCEPT !.pc = "created", !.time = time]]
    /\ last' = [op |-> "tick", result |-> "ok", arg |-> r]
    /\ UNCHANGED <<start, mult, noise, dm, mem, data>>

Outcome(pc) ==
    CASE pc = "yielded" -> "event"
      [] pc = "done" -> "StopIteration"
      [] OTHER -> pc

\* The scheduler advances generator r for the first time: lines 92-98
First(r, z) ==
    /\ run[r].pc = "created"
    /\ LET g == loop(run[r], data, 0, z)
       IN  /\ Len(g.events) <= MaxTicks
           /\ run' = [run EXCEPT ![r] = g]
           /\ last' = [op |-> "next", result |-> Outcome(g.pc), arg |-> r]
    /\ UNCHANGED <<start, mult, noise, dm, mem, data>>

\* resumption whose advance rewrites, in place, a record object that the memory
\* store still shares with the buffer
Resume_Aliased(r, z) ==
    /\ run[r].pc = "yielded"
    /\ IF data = {}
       THEN /\ run' = [run EXCEPT ![r].pc = "KeyError"]
            /\ last' = [op |-> "next", result |-> "KeyError", arg |-> r]
            /\ UNCHANGED <<data, mem>>
       ELSE LET d == modify(data, tick_chunk(run[r].tickcount))
                g == loop(run[r], d, run[r].tickcount + 1, z)
            IN  /\ Len(g.events) <= MaxTicks
                /\ data' = d
                /\ mem' = [st \in Stores |->
                               [i \in DOMAIN mem[st] |->
                                   [mem[st][i] EXCEPT !.chunk = pop(d)]]]
                /\ run' = [run EXCEPT ![r] = g]
                /\ last' = [op |-> "next", result |-> Outcome(g.pc), arg |-> r]
    /\ UNCHANGED <<start, mult, noise, dm>>

\* The scheduler resumes generator r after an event: lines 99-100, then 93-98.
\* modify on an empty buffer fails with KeyError, which tick does not catch.
Resume(r, z) ==
    /\ run[r].pc = "yielded"
    /\ IF data = {}
       THEN /\ run' = [run EXCEPT ![r].pc = "KeyError"]
            /\ last' = [op |-> "next", result |-> "KeyError", arg |-> r]
            /\ UNCHANGED data
       ELSE LET d == modify(data, tick_chunk(run[r].tickcount))
                g == loop(run[r], d, run[r].tickcount + 1, z)
            IN  /\ Len(g.events) <= MaxTicks
                /\ data' = d
                /\ run' = [run EXCEPT ![r] = g]
                /\ last' = [op |-> "next", result |-> Outcome(g.pc), arg |-> r]
    /\ UNCHANGED <<start, mult, noise, dm, mem>>

Next ==
    \/ \E value \in Stores \cup {"notamemory"} : SetDefaultHarvest(value)
    \/ \E c \in Commands, b \in Bindings : Create(c, b)
    \/ \E t \in ClearTimes : Clear(t)
    \/ Retrieve
    \/ \E r \in Runs, t \in TimeValues : Tick(r, t)
    \/ \E r \in Runs, z \in ZDraws : First(r, z)
    \/ \E r \in Runs, z \in ZDraws : Resume(r, z)

Spec == Init /\ [][Next]_vars

\* The buffers whose configuration the design allows: start > 0 and mult > 1
InitValid == Init /\ start > 0 /\ mult > 1

SpecValid == InitValid /\ [][Next]_vars

----------------------------------------------------------------------------
(* Properties *)

ValidationErrors ==
    {"ACTRError: must specify the attribute time and nothing else",
     "ACTRError: must begin counting at 0"}

\* A resolved command that is not exactly {time: "0"}
BadCommand(m) ==
    \/ Cardinality(DOMAIN m) # 1
    \/ "time" \notin DOMAIN m
    \/ m["time"].values # "0"

\* C1: a create whose resolved command has a number of attributes other than one,
\* or no start attribute (time), or a start value that is not "0", fails with a
\* validation error and leaves the slot and the memory as they were.
C1_CreateRejects ==
    [][(last'.op = "create" /\ last'.result # "ACTRError: unbound"
            /\ BadCommand(last'.arg.command))
          => /\ last'.result \in ValidationErrors
             /\ data' = data
             /\ mem' = mem]_vars

\* C1 witness: a create has just been rejected for its start value while the slot
\* holds a record that a tick has advanced
C1_Witness ==
    /\ last.op = "create"
    /\ last.result = "ACTRError: must begin counting at 0"
    /\ \E x \in data : x.attrs["time"] = "1"

\* seq[1] + ... + seq[k]
RECURSIVE SumTo(_, _)
SumTo(seq, k) == IF k = 0 THEN 0 ELSE SumTo(seq, k - 1) + seq[k]

\* C2: the n-th event of a run carries the time current_time + lag_0 + ... + lag_n
\* (rounded), not current_time + lag_n.
C2_EventTimesCumulative ==
    \A r \in Runs : \A k \in 1..Len(run[r].events) :
        run[r].events[k].time = roundtime(run[r].time + SumTo(run[r].lags, k))

\* C3: resuming a run that is suspended after an event, with the slot empty, raises
\* nothing: the run ends in that resumption and a stale-write warning is reported.
C3_StaleWriteIsWarning ==
    [][\A r \in Runs :
          (run[r].pc = "yielded" /\ data = {} /\ last'.op = "next" /\ last'.arg = r)
              => /\ run'[r].pc = "done"
                 /\ last'.result = "StaleWriteWarning"]_vars

\* C4: a valid create on an occupied slot harvests the record the slot held into the
\* default memory store and leaves the slot holding only the new record.
C4_CreateHarvests ==
    [][(last'.op = "create" /\ last'.result = "ok" /\ data # {})
          => /\ \A old \in data :
                    \E i \in (Len(mem[dm]) + 1)..Len(mem'[dm]) : mem'[dm][i].chunk = old
             /\ Len(mem'[dm]) = Len(mem[dm]) + Cardinality(data)
             /\ data' = {Chunk(TEMPORAL_CHUNK, [a \in {"time"} |-> "0"])}]_vars

\* C4 witness: a create has just replaced a record, and the record it replaced, which
\* a tick had advanced, is the newest entry of the memory store
C4_Witness ==
    /\ last.op = "create" /\ last.result = "ok" /\ last.arg.slot # {}
    /\ Len(mem[dm]) >= 1
    /\ mem[dm][Len(mem[dm])].chunk.attrs["time"] = "1"
    /\ \E x \in data : x.attrs["time"] = "0"

\* C5: the slot never holds more than one record.
C5_SingleOccupancy == Cardinality(data) <= 1

\* C5 witness: the slot is occupied after a create on an occupied slot and a later
\* advance by a tick
C5_Witness ==
    /\ Cardinality(data) = 1
    /\ last.op = "next" /\ last.result = "event"
    /\ Len(mem[dm]) >= 1
    /\ \E x \in data : x.attrs["time"] = "0"

\* C6: clear(t) on an occupied slot adds exactly the slot's record, with time t, to
\* the configured memory store and empties the slot; on an empty slot it changes
\* neither.
C6_ClearHarvests ==
    [][\A t \in ClearTimes :
          Clear(t) =>
              IF data # {}
              THEN /\ \E x \in data :
                        /\ data = {x}
                        /\ mem' = [mem EXCEPT ![dm] = Append(@, [chunk |-> x, time |-> t])]
                   /\ data' = {}
              ELSE data' = data /\ mem' = mem]_vars

\* C6 witness: a clear at a time other than the default has just harvested a record
\* that a tick had advanced
C6_Witness ==
    /\ last.op = "clear" /\ last.result = "harvested" /\ last.arg = 5
    /\ data = {}
    /\ mem[dm][Len(mem[dm])] = [chunk |-> Chunk(TEMPORAL_CHUNK, [a \in {"time"} |-> "1"]),
                                time |-> 5]

\* C7: no buffer exists, and no tick run executes, with time_start <= 0 or
\* time_mult <= 1.
C7_ConfigurationChecked ==
    \A r \in Runs : run[r].events # <<>> => (start > 0 /\ mult > 1)

\* C8 as stated: a create whose resolved command is exactly {ticks: "0"} succeeds and
\* leaves the slot holding one temporal record whose only attribute is ticks = 0.
C8_TicksAccepted ==
    [][(/\ last'.op = "create" /\ last'.result # "ACTRError: unbound"
        /\ last'.arg.command = [a \in {"ticks"} |-> [values |-> "0"]])
          => /\ last'.result = "ok"
             /\ data' = {Chunk(TEMPORAL_CHUNK, [a \in {"ticks"} |-> "0"])}]_vars

\* C8 amended: a create whose resolved command is exactly {time: "0"} succeeds and
\* leaves the slot holding one temporal record whose only attribute is time = "0".
C8_TimeAccepted ==
    [][(/\ last'.op = "create" /\ last'.result # "ACTRError: unbound"
        /\ last'.arg.command = [a \in {"time"} |-> [values |-> "0"]])
          => /\ last'.result = "ok"
             /\ data' = {Chunk(TEMPORAL_CHUNK, [a \in {"time"} |-> "0"])}]_vars

\* C8 witness: a create has succeeded on a slot that an earlier clear had emptied
C8_Witness ==
    /\ last.op = "create" /\ last.result = "ok" /\ last.arg.slot = {}
    /\ data = {Chunk(TEMPORAL_CHUNK, [a \in {"time"} |-> "0"])}
    /\ Len(mem[dm]) >= 1

\* C9: the first lag of a run is start + noise(noise * 5 * start) and every later lag
\* is mult * previous + noise(noise * mult * previous); without noise the lags are
\* start, mult * start, mult * mult * start, ...
C9_Recurrence ==
    \A r \in Runs : \A k \in 1..Len(run[r].lags) :
        LET lags == run[r].lags
            mean == IF k = 1 THEN start ELSE mult * lags[k - 1]
            scale == IF k = 1 THEN noise * 5 * start ELSE noise * mult * lags[k - 1]
        IN  /\ \E z \in ZDraws : lags[k] = mean + scale * z
            /\ noise = 0 => lags[k] = mean

\* C9 witness: a run has computed three lags under noise, each differing from the
\* noiseless value
C9_Witness ==
    \E r \in Runs :
        /\ noise = 1 /\ mult = 2
        /\ Len(run[r].lags) = 3
        /\ run[r].lags[2] = 2 * (2 * run[r].lags[1])
        /\ run[r].lags[3] = 2 * (2 * run[r].lags[2])

\* C10: the k-th event of a run carries index k (from 0, by one) and a time strictly
\* later than the event before it.
C10_StrictlyIncreasing ==
    \A r \in Runs : \A k \in 1..Len(run[r].events) :
        /\ run[r].events[k].action = "TEMPORAL TICK: " \o str(k - 1)
        /\ k > 1 => run[r].events[k].time > run[r].events[k - 1].time

\* C11: every call of retrieve fails with an error that reaches the caller and
\* leaves the slot and the memory store as they were.
C11_RetrieveFails ==
    [][last'.op = "retrieve"
          => /\ last'.result = "ACTRError"
             /\ data' = data
             /\ mem' = mem]_vars

\* C11 witness: retrieve has just failed on a buffer whose slot is occupied and whose
\* memory store holds a harvested record
C11_Witness ==
    /\ last.op = "retrieve" /\ last.result = "ACTRError"
    /\ data # {}
    /\ Len(mem[dm]) >= 1

\* C12: once the slot has been cleared while a run is suspended after its event k,
\* the next resumption emits no further event and reports the dropped advance as a
\* stale-write warning; the run has ended, so the report is made once.
C12_NoEventAfterClear ==
    [][\A r \in Runs :
          (run[r].pc = "yielded" /\ data = {} /\ last'.op = "next" /\ last'.arg = r)
              => /\ run'[r].events = run[r].events
                 /\ last'.result = "StaleWriteWarning"
                 /\ run'[r].pc \notin {"created", "yielded"}]_vars

\* C13: a resumption after the event with index k, the slot being occupied, rewrites
\* the slot's record to the single attribute time = k, leaves exactly that one record
\* in the slot and adds nothing to the memory store.
C13_AdvanceWritesIndex ==
    [][\A r \in Runs :
          (run[r].pc = "yielded" /\ data # {} /\ last'.op = "next" /\ last'.arg = r)
              => /\ data' = {Chunk(TEMPORAL_CHUNK,
                                   [a \in {"time"} |-> str(Len(run[r].events) - 1)])}
                 /\ mem' = mem]_vars

\* C13 witness: the second resumption of a run has written 1 into the slot and the
\* run has emitted its third event
C13_Witness ==
    \E r \in Runs :
        /\ last.op = "next" /\ last.arg = r /\ last.result = "event"
        /\ Len(run[r].events) = 3
        /\ data = {Chunk(TEMPORAL_CHUNK, [a \in {"time"} |-> "1"])}

\* C14: a run advances only the record it was started for. In particular, when a
\* start command has just been accepted while the run was suspended, the next
\* resumption cancels the run: it writes nothing into the new record and emits no
\* further event.
C14_OldRunCancelled ==
    [][\A r \in Runs :
          (/\ run[r].pc = "yielded"
           /\ last.op = "create" /\ last.result = "ok"
           /\ last'.op = "next" /\ last'.arg = r)
              => /\ data' = data
                 /\ run'[r].events = run[r].events
                 /\ run'[r].pc # "yielded"]_vars

C16_EmitsOnlyWhileOccupied ==
    [][\A r \in Runs :
          (last'.op = "next" /\ last'.arg = r)
              => /\ (run[r].pc = "created" /\ data = {})
                        => /\ run'[r].pc = "done"
                           /\ run'[r].events = <<>>
                           /\ data' = data
                           /\ mem' = mem
                 /\ Len(run'[r].events) > Len(run[r].events) => data' # {}]_vars

\* C16 witness: a run started on an emptied slot has ended at its first advance
\* without an event
C16_Witness ==
    \E r \in Runs :
        /\ last.op = "next" /\ last.arg = r /\ last.result = "StopIteration"
        /\ run[r].pc = "done" /\ run[r].events = <<>>
        /\ data = {}
        /\ Len(mem[dm]) >= 1

\* C17: while the slot stays occupied a run never ends on its own: a resumption that
\* finds the slot occupied emits the next event.
C17_RunsWhileOccupied ==
    [][\A r \in Runs :
          (/\ last'.op = "next" /\ last'.arg = r
           /\ run[r].pc \in {"created", "yielded"}
           /\ data # {})
              => /\ run'[r].pc = "yielded"
                 /\ Len(run'[r].events) = Len(run[r].events) + 1]_vars
====
